---- MODULE Spec2Model ----
(***************************************************************************)
(* NanoObject / NanoObjectList of src/v2/nano_engine/object.h as a state   *)
(* machine.  Objects are identified by integers; a pointer is an object    *)
(* identifier or NULL.  Every method is an operator from a heap record to   *)
(* a heap record, translated statement by statement; an action applies one *)
(* whole method call to the heap held in the variables.                    *)
(***************************************************************************)
EXTENDS Integers, Sequences, FiniteSets, TLC

\* ------------------------------------------------------------------ bounds
NumPlain == 3
NumTilers == 1
NumLists == 2
MaxCoord == 2
ArithMargin == 1

\* ------------------------------------------------------------ the universe
NULL == 0
Plain == 1..NumPlain
ListC == NumPlain + 1
Lists == ListC..(NumPlain + NumLists)
Obj == Plain \cup Lists
Tilers == 1..NumTilers

LcdIntBits == 16
Wrap(v) == ((v + 2^(LcdIntBits - 1)) % 2^LcdIntBits) - 2^(LcdIntBits - 1)

Pt(x, y) == [x |-> x, y |-> y]
PtAdd(a, b) == Pt(Wrap(a.x + b.x), Wrap(a.y + b.y))
PtSub(a, b) == Pt(Wrap(a.x - b.x), Wrap(a.y - b.y))

VARIABLES m_first, m_next, m_tiler, m_rect, call
vars == <<m_first, m_next, m_tiler, m_rect, call>>

\* --------------------------------------------------------------- NanoObject
NanoObject1(pos) == [p1 |-> pos, p2 |-> pos]
NanoObject2(pos, size) == [p1 |-> pos, p2 |-> PtSub(PtAdd(pos, size), Pt(1, 1))]

width(r) == Wrap(r.p2.x - r.p1.x + 1)
height(r) == Wrap(r.p2.y - r.p1.y + 1)

hasTiler(h, o) == h.tiler[o] # NULL
setTiler(h, o, t) == [h EXCEPT !.tiler[o] = t]

\* What a collaborator called from inside a method can observe of the heap.
Snapshot(h) == [first |-> h.first, next |-> h.next, tiler |-> h.tiler, rect |-> h.rect]
Emit(h, e) == [h EXCEPT !.log = Append(@, e)]
refreshWorld(h, t, r) ==
    Emit(h, [ev |-> "refreshWorld", on |-> t, rect |-> r, obj |-> NULL, at |-> Snapshot(h)])

\* Variant: the test for an attached tiler is missing.
ObjRefresh_NoTilerTest(h, o) == refreshWorld(h, h.tiler[o], h.rect[o])
ObjRefresh(h, o) ==
    IF hasTiler(h, o) THEN refreshWorld(h, h.tiler[o], h.rect[o]) ELSE h
ObjUpdate(h, o) == h
ObjDraw(h, o) == h

\* Variant: the bottom-right corner is computed from the origin, not from p1.
setSize_FromOrigin(h, o, size) ==
    [h EXCEPT !.rect[o].p2 = Pt(Wrap(size.x - 1), Wrap(size.y - 1))]
\* Variant: the new footprint is marked for refresh, as resize does.
setSize_Refreshes(h, o, size) ==
    ObjRefresh([h EXCEPT !.rect[o].p2 = Pt(Wrap(h.rect[o].p1.x + size.x - 1),
                                           Wrap(h.rect[o].p1.y + size.y - 1))], o)
setSize(h, o, size) ==
    [h EXCEPT !.rect[o].p2 = Pt(Wrap(h.rect[o].p1.x + size.x - 1),
                                Wrap(h.rect[o].p1.y + size.y - 1))]
setPos(h, o, p) ==
    [h EXCEPT !.rect[o] = [p1 |-> p,
                           p2 |-> Pt(Wrap(p.x + h.rect[o].p2.x - h.rect[o].p1.x),
                                     Wrap(p.y + h.rect[o].p2.y - h.rect[o].p1.y))]]

\* ----------------------------------------------------------- NanoObjectList
\* A chain of n+1 links over n objects revisits one: the walk never ends.
MaxWalk == Cardinality(Obj)
\* A nest of collections deeper than their number re-enters one: the
\* recursion never returns.
MaxDepth == Cardinality(Lists)
HANG == NULL - 1
Hang(h) == [h EXCEPT !.hang = TRUE]

getNext(h, l, prev) == IF prev # NULL THEN h.next[prev] ELSE h.first[l]

\* The i-th object of collection l's chain, null past its end.
RECURSIVE getNextN(_, _, _)
getNextN(h, l, i) ==
    IF i = 1 THEN getNext(h, l, NULL)
    ELSE LET p == getNextN(h, l, i - 1) IN IF p = NULL THEN NULL ELSE getNext(h, l, p)

\* Variant: the loop stops at curr itself, not at the object linked to it.
RECURSIVE getPrevLoop_StopsAtCurr(_, _, _, _)
getPrevLoop_StopsAtCurr(h, p, curr, n) ==
    IF p = NULL THEN NULL
    ELSE IF p = curr THEN p
    ELSE IF n = 0 THEN HANG
    ELSE getPrevLoop_StopsAtCurr(h, h.next[p], curr, n - 1)
RECURSIVE getPrevLoop(_, _, _, _)
getPrevLoop(h, p, curr, n) ==
    IF p = NULL THEN NULL
    ELSE IF h.next[p] = curr THEN p
    ELSE IF n = 0 THEN HANG
    ELSE getPrevLoop(h, h.next[p], curr, n - 1)
getPrev(h, l, curr) == getPrevLoop(h, h.first[l], curr, MaxWalk)

RECURSIVE hasLoop(_, _, _, _, _)
hasLoop(h, l, p, object, n) ==
    IF ~(p # NULL /\ p # object) THEN p
    ELSE IF n = 0 THEN HANG
    ELSE hasLoop(h, l, getNext(h, l, p), object, n - 1)
\* Variant: the scan starts at the head's successor.
has_SkipsHead(h, l, object) ==
    h.first[l] # NULL
    /\ hasLoop(h, l, getNext(h, l, h.first[l]), object, MaxWalk) # NULL
has(h, l, object) == hasLoop(h, l, getNext(h, l, NULL), object, MaxWalk) # NULL
hasHangs(h, l, object) == hasLoop(h, l, getNext(h, l, NULL), object, MaxWalk) = HANG

RECURSIVE refresh(_, _, _)
RECURSIVE update(_, _, _)
RECURSIVE draw(_, _, _)

\* Variant: p->setTiler( m_tiler ) is missing.
RECURSIVE ListRefreshLoop_KeepsTiler(_, _, _, _, _)
ListRefreshLoop_KeepsTiler(h, l, p, d, n) ==
    IF h.hang \/ p = NULL THEN h
    ELSE IF n = 0 THEN Hang(h)
    ELSE LET h2 == refresh(h, p, d)
         IN  ListRefreshLoop_KeepsTiler(h2, l, getNext(h2, l, p), d, n - 1)
RECURSIVE ListRefreshLoop(_, _, _, _, _)
ListRefreshLoop(h, l, p, d, n) ==
    IF h.hang \/ p = NULL THEN h
    ELSE IF n = 0 THEN Hang(h)
    ELSE LET h1 == setTiler(h, p, h.tiler[l])
             h2 == refresh(h1, p, d)
         IN  ListRefreshLoop(h2, l, getNext(h2, l, p), d, n - 1)
ListRefresh(h, l, d) ==
    IF d = 0 THEN Hang(h)
    ELSE ListRefreshLoop(h, l, getNext(h, l, NULL), d - 1, MaxWalk)

RECURSIVE ListUpdateLoop(_, _, _, _, _)
ListUpdateLoop(h, l, p, d, n) ==
    IF h.hang \/ p = NULL THEN h
    ELSE IF n = 0 THEN Hang(h)
    ELSE LET h1 == update(h, p, d)
         IN  ListUpdateLoop(h1, l, getNext(h1, l, p), d, n - 1)
\* Variant: the traversal starts at the head's successor.
ListUpdate_SkipsHead(h, l, d) ==
    IF d = 0 THEN Hang(h)
    ELSE IF h.first[l] = NULL THEN h
    ELSE ListUpdateLoop(h, l, getNext(h, l, h.first[l]), d - 1, MaxWalk)
ListUpdate(h, l, d) ==
    IF d = 0 THEN Hang(h)
    ELSE ListUpdateLoop(h, l, getNext(h, l, NULL), d - 1, MaxWalk)

RECURSIVE ListDrawLoop(_, _, _, _, _)
ListDrawLoop(h, l, p, d, n) ==
    IF h.hang \/ p = NULL THEN h
    ELSE IF n = 0 THEN Hang(h)
    ELSE LET h1 == draw(h, p, d)
         IN  ListDrawLoop(h1, l, getNext(h1, l, p), d, n - 1)
ListDraw(h, l, d) ==
    IF d = 0 THEN Hang(h)
    ELSE ListDrawLoop(h, l, getNext(h, l, NULL), d - 1, MaxWalk)

\* Virtual dispatch of p->refresh(), p->update(), p->draw(); d is the number
\* of collection levels that may still be entered.
refresh(h, o, d) == IF o \in Lists THEN ListRefresh(h, o, d) ELSE ObjRefresh(h, o)
update(h, o, d) ==
    LET h1 == Emit(h, [ev |-> "update", on |-> NULL, rect |-> h.rect[o], obj |-> o,
                       at |-> Snapshot(h)])
    IN  IF o \in Lists THEN ListUpdate(h1, o, d) ELSE ObjUpdate(h1, o)
draw(h, o, d) ==
    LET h1 == Emit(h, [ev |-> "draw", on |-> NULL, rect |-> h.rect[o], obj |-> o,
                       at |-> Snapshot(h)])
    IN  IF o \in Lists THEN ListDraw(h1, o, d) ELSE ObjDraw(h1, o)

\* NanoObject's moveTo, moveBy, resize; their refresh() is the virtual one.
moveTo(h, o, p) ==
    LET h1 == refresh(h, o, MaxDepth)
    IN  IF h1.hang THEN h1 ELSE refresh(setPos(h1, o, p), o, MaxDepth)
\* Variant: the position is set before the first refresh.
moveBy_MovesBeforeFirstRefresh(h, o, p) ==
    LET h1 == refresh(setPos(h, o, PtAdd(h.rect[o].p1, p)), o, MaxDepth)
    IN  IF h1.hang THEN h1 ELSE refresh(h1, o, MaxDepth)
\* Variant: only the top-left corner is moved.
moveBy_KeepsCorner(h, o, p) ==
    LET h1 == refresh(h, o, MaxDepth)
    IN  IF h1.hang THEN h1
        ELSE refresh([h1 EXCEPT !.rect[o].p1 = PtAdd(h1.rect[o].p1, p)], o, MaxDepth)
moveBy(h, o, p) ==
    LET h1 == refresh(h, o, MaxDepth)
    IN  IF h1.hang THEN h1
        ELSE refresh(setPos(h1, o, PtAdd(h1.rect[o].p1, p)), o, MaxDepth)
resize(h, o, size) ==
    LET h1 == refresh(h, o, MaxDepth)
    IN  IF h1.hang THEN h1 ELSE refresh(setSize(h1, o, size), o, MaxDepth)

Ret(h, r) == [h |-> h, ret |-> r]

\* Variant: no membership scan, only the null test.
add_NoMembershipScan(h, l, object) ==
    IF object = NULL THEN Ret(h, FALSE)
    ELSE LET h1 == [h EXCEPT !.next[object] = NULL]
             h2 == setTiler(h1, object, h1.tiler[l])
             h3 == IF h2.first[l] = NULL
                   THEN [h2 EXCEPT !.first[l] = object]
                   ELSE [h2 EXCEPT !.next[getPrev(h2, l, NULL)] = object]
         IN  Ret(refresh(h3, object, MaxDepth), TRUE)
\* Variant: object->m_next is cleared before the membership scan.
add_DetachesBeforeScan(h, l, object) ==
    IF object = NULL THEN Ret(h, FALSE)
    ELSE LET h1 == [h EXCEPT !.next[object] = NULL]
         IN  IF has(h1, l, object) THEN Ret(h1, FALSE)
             ELSE LET h2 == setTiler(h1, object, h1.tiler[l])
                      h3 == IF h2.first[l] = NULL
                            THEN [h2 EXCEPT !.first[l] = object]
                            ELSE [h2 EXCEPT !.next[getPrev(h2, l, NULL)] = object]
                  IN  Ret(refresh(h3, object, MaxDepth), TRUE)
add(h, l, object) ==
    IF object # NULL /\ hasHangs(h, l, object) THEN Ret(Hang(h), FALSE)
    ELSE IF object = NULL \/ has(h, l, object) THEN Ret(h, FALSE)
    ELSE LET h1 == [h EXCEPT !.next[object] = NULL]
             h2 == setTiler(h1, object, h1.tiler[l])
             h3 == IF h2.first[l] = NULL
                   THEN [h2 EXCEPT !.first[l] = object]
                   ELSE [h2 EXCEPT !.next[getPrev(h2, l, NULL)] = object]
         IN  Ret(refresh(h3, object, MaxDepth), TRUE)

\* Variant: object->refresh() runs before m_first = object.
insert_RefreshBeforeLink(h, l, object) ==
    IF object = NULL \/ has(h, l, object) THEN Ret(h, FALSE)
    ELSE LET h1 == [h EXCEPT !.next[object] = h.first[l]]
             h2 == [h1 EXCEPT !.tiler[object] = h1.tiler[l]]
             h3 == refresh(h2, object, MaxDepth)
         IN  Ret([h3 EXCEPT !.first[l] = object], TRUE)
\* Variant: the object is linked behind the last member, as add does.
insert_AtTail(h, l, object) ==
    IF object = NULL \/ has(h, l, object) THEN Ret(h, FALSE)
    ELSE LET h1 == [h EXCEPT !.next[object] = NULL]
             h2 == [h1 EXCEPT !.tiler[object] = h1.tiler[l]]
             h3 == IF h2.first[l] = NULL
                   THEN [h2 EXCEPT !.first[l] = object]
                   ELSE [h2 EXCEPT !.next[getPrev(h2, l, NULL)] = object]
         IN  Ret(refresh(h3, object, MaxDepth), TRUE)
\* Variant: object->m_next = m_first is missing.
insert_KeepsNext(h, l, object) ==
    IF object = NULL \/ has(h, l, object) THEN Ret(h, FALSE)
    ELSE LET h2 == [h EXCEPT !.tiler[object] = h.tiler[l]]
             h3 == [h2 EXCEPT !.first[l] = object]
         IN  Ret(refresh(h3, object, MaxDepth), TRUE)
insert(h, l, object) ==
    IF object # NULL /\ hasHangs(h, l, object) THEN Ret(Hang(h), FALSE)
    ELSE IF object = NULL \/ has(h, l, object) THEN Ret(h, FALSE)
    ELSE LET h1 == [h EXCEPT !.next[object] = h.first[l]]
             h2 == [h1 EXCEPT !.tiler[object] = h1.tiler[l]]
             h3 == [h2 EXCEPT !.first[l] = object]
         IN  Ret(refresh(h3, object, MaxDepth), TRUE)

\* Variant: the head is unlinked and detached before object->refresh().
removeHead_UnlinkBeforeRefresh(h, l, object) ==
    LET h1 == [h EXCEPT !.first[l] = h.next[object],
                        !.next[object] = NULL,
                        !.tiler[object] = NULL]
    IN  Ret(refresh(h1, object, MaxDepth), TRUE)
\* Variant: the unlink is done but control falls through to return false.
removeAfter_ReturnsFalse(h, p, object) ==
    LET h1 == refresh(h, object, MaxDepth)
    IN  Ret([h1 EXCEPT !.next[p] = h1.next[object],
                       !.next[object] = NULL,
                       !.tiler[object] = NULL], FALSE)
\* Variant: p->m_next = object->m_next is missing.
removeAfter_KeepsLink(h, p, object) ==
    LET h1 == refresh(h, object, MaxDepth)
    IN  Ret([h1 EXCEPT !.next[object] = NULL,
                       !.tiler[object] = NULL], TRUE)
\* Variant: object->m_tiler = nullptr is missing.
removeHead_KeepsTiler(h, l, object) ==
    LET h1 == refresh(h, object, MaxDepth)
    IN  IF h1.hang THEN Ret(h1, FALSE)
        ELSE Ret([h1 EXCEPT !.first[l] = h1.next[object],
                            !.next[object] = NULL], TRUE)
\* object->refresh(); <link of object's predecessor> = object->m_next;
\* object->m_next = nullptr; object->m_tiler = nullptr; return true;
removeHead(h, l, object) ==
    LET h1 == refresh(h, object, MaxDepth)
    IN  IF h1.hang THEN Ret(h1, FALSE)
        ELSE Ret([h1 EXCEPT !.first[l] = h1.next[object],
                            !.next[object] = NULL,
                            !.tiler[object] = NULL], TRUE)
removeAfter(h, p, object) ==
    LET h1 == refresh(h, object, MaxDepth)
    IN  IF h1.hang THEN Ret(h1, FALSE)
        ELSE Ret([h1 EXCEPT !.next[p] = h1.next[object],
                            !.next[object] = NULL,
                            !.tiler[object] = NULL], TRUE)
RECURSIVE removeLoop(_, _, _, _)
removeLoop(h, p, object, n) ==
    IF h.next[p] = NULL THEN Ret(h, FALSE)
    ELSE IF n = 0 THEN Ret(Hang(h), FALSE)
    ELSE IF h.next[p] = object THEN removeAfter(h, p, object)
    ELSE removeLoop(h, h.next[p], object, n - 1)
remove(h, l, object) ==
    IF h.first[l] = NULL \/ object = NULL THEN Ret(h, FALSE)
    ELSE IF object = h.first[l] THEN removeHead(h, l, object)
    ELSE removeLoop(h, h.first[l], object, MaxWalk)

\* ------------------------------------------------------------ state machine
Heap == [first |-> m_first, next |-> m_next, tiler |-> m_tiler, rect |-> m_rect,
         log |-> <<>>, hang |-> FALSE]

NoPt == Pt(0, 0)
Commit(h, op, self, obj, pt, ret, retp) ==
    /\ m_first' = h.first
    /\ m_next' = h.next
    /\ m_tiler' = h.tiler
    /\ m_rect' = h.rect
    /\ call' = [op |-> op, self |-> self, obj |-> obj, pt |-> pt, ret |-> ret,
                retp |-> retp, log |-> h.log, hang |-> h.hang, from |-> m_rect]

InitRect(o) ==
    IF o \in Lists THEN NanoObject1(Pt(0, 0))
    ELSE IF o = 1 THEN NanoObject1(Pt(1, 2))
    ELSE NanoObject2(Pt(o, 2 * o), Pt(o, 2))

Init ==
    /\ m_first = [l \in Lists |-> NULL]
    /\ m_next = [o \in Obj |-> NULL]
    /\ m_tiler = [o \in Obj |-> NULL]
    /\ m_rect = [o \in Obj |-> InitRect(o)]
    /\ call = [op |-> "init", self |-> NULL, obj |-> NULL, pt |-> NoPt, ret |-> FALSE,
               retp |-> NULL, log |-> <<>>, hang |-> FALSE, from |-> m_rect]

Running == ~call.hang

Add(l, o) ==
    /\ Running
    /\ LET r == add(Heap, l, o) IN Commit(r.h, "add", l, o, NoPt, r.ret, NULL)
Insert(l, o) ==
    /\ Running
    /\ LET r == insert(Heap, l, o) IN Commit(r.h, "insert", l, o, NoPt, r.ret, NULL)
Remove(l, o) ==
    /\ Running
    /\ LET r == remove(Heap, l, o) IN Commit(r.h, "remove", l, o, NoPt, r.ret, NULL)
Has(l, o) ==
    /\ Running
    /\ Commit(Heap, "has", l, o, NoPt, has(Heap, l, o), NULL)
GetPrev(l, o) ==
    /\ Running
    /\ Commit(Heap, "getPrev", l, o, NoPt, FALSE, getPrev(Heap, l, o))
Update(l) ==
    /\ Running
    /\ Commit(ListUpdate(Heap, l, MaxDepth), "update", l, NULL, NoPt, FALSE, NULL)
Draw(l) ==
    /\ Running
    /\ Commit(ListDraw(Heap, l, MaxDepth), "draw", l, NULL, NoPt, FALSE, NULL)
Refresh(l) ==
    /\ Running
    /\ Commit(ListRefresh(Heap, l, MaxDepth), "refresh", l, NULL, NoPt, FALSE, NULL)
\* The engine attaches the collection to a tiler, or detaches it.
SetTiler(l, t) ==
    /\ Running
    /\ Commit(setTiler(Heap, l, t), "setTiler", l, NULL, NoPt, FALSE, NULL)

\* Geometry calls; coordinates stay inside the window so that the state space
\* is finite.
PosInputs == {Pt(1, 2), Pt(0, 0)}
DeltaInputs == {Pt(0, 0), Pt(1, -1), Pt(-1, 1)}
SizeInputs == {Pt(1, 1), Pt(2, 3)}
InWindow(p) == p.x \in -MaxCoord..MaxCoord /\ p.y \in -MaxCoord..MaxCoord

MoveTo(o, p) ==
    /\ Running
    /\ Commit(moveTo(Heap, o, p), "moveTo", o, NULL, p, FALSE, NULL)
MoveBy(o, p) ==
    /\ Running
    /\ Commit(moveBy(Heap, o, p), "moveBy", o, NULL, p, FALSE, NULL)
Resize(o, size) ==
    /\ Running
    /\ Commit(resize(Heap, o, size), "resize", o, NULL, size, FALSE, NULL)
SetPos(o, p) ==
    /\ Running
    /\ Commit(setPos(Heap, o, p), "setPos", o, NULL, p, FALSE, NULL)
SetSize(o, size) ==
    /\ Running
    /\ Commit(setSize(Heap, o, size), "setSize", o, NULL, size, FALSE, NULL)
\* refresh() called on an object directly.
RefreshObject(o) ==
    /\ Running
    /\ Commit(refresh(Heap, o, MaxDepth), "refresh", o, NULL, NoPt, FALSE, NULL)

Args == Plain \cup {NULL}

Next ==
    \/ \E o \in Args : Add(ListC, o)
    \/ \E o \in Args : Insert(ListC, o)
    \/ \E o \in Args : Remove(ListC, o)
    \/ \E o \in Args : Has(ListC, o)
    \/ \E o \in Args : GetPrev(ListC, o)
    \/ Update(ListC)
    \/ Draw(ListC)
    \/ Refresh(ListC)
    \/ \E t \in Tilers \cup {NULL} : SetTiler(ListC, t)

Spec == Init /\ [][Next]_vars

\* The geometry calls on the objects of Movers, which the collection attaches
\* and detaches.
Movers == {1}
NextGeom ==
    \/ \E o \in Movers, p \in PosInputs : MoveTo(o, p)
    \/ \E o \in Movers, p \in DeltaInputs :
          InWindow(PtAdd(m_rect[o].p1, p)) /\ MoveBy(o, p)
    \/ \E o \in Movers, z \in SizeInputs : Resize(o, z)
    \/ \E o \in Movers, p \in PosInputs : SetPos(o, p)
    \/ \E o \in Movers, z \in SizeInputs : SetSize(o, z)
    \/ \E o \in Movers : RefreshObject(o)
    \/ \E o \in Movers : Add(ListC, o)
    \/ \E o \in Movers : Insert(ListC, o)
    \/ \E o \in Movers : Remove(ListC, o)
    \/ \E t \in Tilers \cup {NULL} : SetTiler(ListC, t)

SpecGeom == Init /\ [][NextGeom]_vars

\* Several collections over one pool of objects.  A collection is a
\* NanoObject, so it can be handed to add and insert like any other object.
InNoCollection(o) ==
    o \notin {getNextN(Heap, l[1], l[2]) : l \in Lists \X (1..(MaxWalk + 1))}

\* Collections that may hold collections.  Each collection is attached to a
\* tiler, or to none, before its first member is added; callers keep to the
\* rule that an object handed to add or insert is in no collection.
NestTilers == 1..(NumTilers + 1)
NestArgs == {1, 2} \cup Lists
InitNest ==
    /\ m_first = [l \in Lists |-> NULL]
    /\ m_next = [o \in Obj |-> NULL]
    /\ \E t \in [Lists -> NestTilers \cup {NULL}] :
          m_tiler = [o \in Obj |-> IF o \in Lists THEN t[o] ELSE NULL]
    /\ m_rect = [o \in Obj |-> InitRect(o)]
    /\ call = [op |-> "init", self |-> NULL, obj |-> NULL, pt |-> NoPt, ret |-> FALSE,
               retp |-> NULL, log |-> <<>>, hang |-> FALSE, from |-> m_rect]
NextNest ==
    \/ \E l \in Lists, o \in NestArgs : InNoCollection(o) /\ Add(l, o)
    \/ \E l \in Lists, o \in NestArgs : InNoCollection(o) /\ Insert(l, o)
    \/ \E l \in Lists, o \in NestArgs : Remove(l, o)
    \/ \E l \in Lists : Refresh(l)
SpecNest == InitNest /\ [][NextNest]_vars

\* Collections of plain objects whose callers do not keep to that rule.
NextShare ==
    \/ \E l \in Lists, o \in Plain : Add(l, o)
    \/ \E l \in Lists, o \in Plain : Insert(l, o)
    \/ \E l \in Lists, o \in Plain : Remove(l, o)
SpecShare == Init /\ [][NextShare]_vars

\* The geometry calls at the ends of the coordinate range.  Object 1 is
\* constructed at any of ArithPos, with or without a size; every call keeps
\* the position within ArithMargin of the least, the greatest or the zero
\* coordinate, so that the state space is finite.
MaxInt == 2^(LcdIntBits - 1) - 1
MinInt == -(2^(LcdIntBits - 1))
PtNeg(p) == Pt(Wrap(-p.x), Wrap(-p.y))
ArithPos == {Pt(0, 0), Pt(MaxInt, 1), Pt(MinInt, -1), Pt(-1, MaxInt)}
ArithDeltas == {Pt(0, 0), Pt(1, -1), Pt(-1, 1), Pt(MaxInt, MinInt), Pt(MinInt, MaxInt),
                Pt(MinInt, MinInt), Pt(1, MaxInt)}
NearEdge(v) ==
    \/ v \in -ArithMargin..ArithMargin
    \/ v >= MaxInt - ArithMargin
    \/ v <= MinInt + ArithMargin
InArithWindow(p) == NearEdge(p.x) /\ NearEdge(p.y)

InitArith ==
    /\ m_first = [l \in Lists |-> NULL]
    /\ m_next = [o \in Obj |-> NULL]
    /\ m_tiler = [o \in Obj |-> NULL]
    /\ \E pos \in ArithPos :
          \/ m_rect = [o \in Obj |-> IF o = 1 THEN NanoObject1(pos) ELSE InitRect(o)]
          \/ \E size \in SizeInputs :
                m_rect = [o \in Obj |-> IF o = 1 THEN NanoObject2(pos, size)
                                        ELSE InitRect(o)]
    /\ call = [op |-> "init", self |-> NULL, obj |-> NULL, pt |-> NoPt, ret |-> FALSE,
               retp |-> NULL, log |-> <<>>, hang |-> FALSE, from |-> m_rect]

NextArith ==
    \/ \E o \in Movers, p \in ArithPos : MoveTo(o, p)
    \/ \E o \in Movers, p \in ArithDeltas :
          InArithWindow(PtAdd(m_rect[o].p1, p)) /\ MoveBy(o, p)
    \/ \E o \in Movers, z \in SizeInputs : Resize(o, z)
    \/ \E o \in Movers, p \in ArithPos : SetPos(o, p)
    \/ \E o \in Movers, z \in SizeInputs : SetSize(o, z)

SpecArith == InitArith /\ [][NextArith]_vars

\* ------------------------------------------------------------------- claims
\* The members of collection l in chain order, read off the links without the
\* collection's own walkers; a chain that does not end within MaxWalk links
\* yields MaxWalk + 1 entries.
RECURSIVE Walk(_, _, _)
Walk(next, p, n) == IF p = NULL \/ n = 0 THEN <<>> ELSE <<p>> \o Walk(next, next[p], n - 1)
ChainOf(first, next, l) == Walk(next, first[l], MaxWalk + 1)
Chain(l) == ChainOf(m_first, m_next, l)
Members(l) == {Chain(l)[i] : i \in 1..Len(Chain(l))}
Range(s) == {s[i] : i \in 1..Len(s)}
Without(s, e) == SelectSeq(s, LAMBDA x : x # e)
HeapUnchanged == UNCHANGED <<m_first, m_next, m_tiler, m_rect>>

\* C1: after every add, insert and remove call, successful or failing, the
\* chain of next links from the collection's head ends in null within as many
\* links as there are objects (finite, acyclic) and holds no entity twice.
C1_ChainAcyclicNoDuplicate ==
    /\ Len(Chain(ListC)) <= MaxWalk
    /\ \A i, j \in 1..Len(Chain(ListC)) : i # j => Chain(ListC)[i] # Chain(ListC)[j]
C1_Witness ==
    /\ call.op = "add" /\ ~call.ret /\ call.obj # NULL
    /\ Len(Chain(ListC)) = NumPlain

\* C2: add(e) and insert(e) return false exactly when e is null or already a
\* member, and a failing call changes no link, head, target or footprint and
\* makes no refreshWorld call.
C2_FailedAddChangesNothing ==
    [][call'.op \in {"add", "insert"} =>
        /\ ~call'.ret <=> (call'.obj = NULL \/ call'.obj \in Members(call'.self))
        /\ ~call'.ret => (HeapUnchanged /\ call'.log = <<>>)]_vars
C2_Witness ==
    /\ call.op = "insert" /\ ~call.ret /\ call.obj \in Members(ListC)
    /\ Len(Chain(ListC)) >= 2

\* C3: remove(e) returns false exactly when the collection is empty, e is null
\* or e is not reachable from head, and a failing call changes no link, head,
\* target or footprint and makes no refreshWorld call.
C3_FailedRemoveChangesNothing ==
    [][call'.op = "remove" =>
        /\ ~call'.ret <=> (\/ m_first[call'.self] = NULL
                           \/ call'.obj = NULL
                           \/ call'.obj \notin Members(call'.self))
        /\ ~call'.ret => (HeapUnchanged /\ call'.log = <<>>)]_vars
C3_Witness ==
    /\ call.op = "remove" /\ ~call.ret /\ call.obj # NULL
    /\ Chain(ListC) # <<>> /\ call.obj \notin Members(ListC)

\* C4: a successful add or insert of a plain entity A with footprint R0 into a
\* collection with target T makes exactly one refreshWorld call, on T with R0,
\* at a moment when A's target is already T and A is already in the chain.
C4_AddRefreshesOnceAfterLink ==
    [][(/\ call'.op \in {"add", "insert"} /\ call'.ret
        /\ call'.obj \in Plain /\ m_tiler[call'.self] # NULL) =>
        /\ Len(call'.log) = 1
        /\ call'.log[1].ev = "refreshWorld"
        /\ call'.log[1].on = m_tiler[call'.self]
        /\ call'.log[1].rect = m_rect[call'.obj]
        /\ call'.log[1].at.tiler[call'.obj] = m_tiler[call'.self]
        /\ call'.obj \in Range(ChainOf(call'.log[1].at.first, call'.log[1].at.next,
                                       call'.self))]_vars
C4_Witness ==
    /\ call.op = "add" /\ call.ret /\ m_tiler[ListC] # NULL
    /\ Len(Chain(ListC)) >= 2 /\ Len(call.log) = 1

\* C5: on a plain entity attached to target T, moveTo, moveBy and resize each
\* make exactly two refreshWorld calls on T, the first with the footprint held
\* before the call (the footprint is still that one at the first call), the
\* second with the footprint held after it.
C5_MoveRefreshesOldThenNew ==
    [][(/\ call'.op \in {"moveTo", "moveBy", "resize"}
        /\ call'.self \in Plain /\ m_tiler[call'.self] # NULL) =>
        /\ Len(call'.log) = 2
        /\ \A i \in 1..2 : /\ call'.log[i].ev = "refreshWorld"
                           /\ call'.log[i].on = m_tiler[call'.self]
        /\ call'.log[1].rect = m_rect[call'.self]
        /\ call'.log[1].at.rect[call'.self] = m_rect[call'.self]
        /\ call'.log[2].rect = m_rect'[call'.self]
        /\ call'.log[2].at.rect[call'.self] = m_rect'[call'.self]]_vars
C5_Witness ==
    /\ call.op = "moveBy" /\ call.self \in Plain /\ Len(call.log) = 2
    /\ call.log[1].rect # call.log[2].rect

\* C6: removing a plain member A whose target is T and whose footprint is R1
\* returns true and makes exactly one refreshWorld call, on T with R1, while A
\* is still linked; afterwards A is not reachable from head and its next link
\* and target are null.
C6_RemoveRefreshesBeforeUnlink ==
    [][(/\ call'.op = "remove" /\ call'.obj \in Plain
        /\ call'.obj \in Members(call'.self) /\ m_tiler[call'.obj] # NULL) =>
        /\ call'.ret
        /\ Len(call'.log) = 1
        /\ call'.log[1].ev = "refreshWorld"
        /\ call'.log[1].on = m_tiler[call'.obj]
        /\ call'.log[1].rect = m_rect[call'.obj]
        /\ ChainOf(call'.log[1].at.first, call'.log[1].at.next, call'.self)
               = Chain(call'.self)
        /\ call'.obj \notin Range(ChainOf(m_first', m_next', call'.self))
        /\ m_next'[call'.obj] = NULL
        /\ m_tiler'[call'.obj] = NULL]_vars
C6_Witness ==
    /\ call.op = "remove" /\ call.ret /\ Len(call.log) = 1
    /\ LET c == ChainOf(call.log[1].at.first, call.log[1].at.next, ListC)
       IN  Len(c) = 3 /\ c[2] = call.obj

\* C7: the member order follows a sequence: a successful add appends its
\* argument, a successful insert prepends it, a successful remove deletes it,
\* each keeping the order of the other members; every other call, and every
\* failing one, leaves the order as it is.
C7_OrderFollowsSequence ==
    [][LET old == Chain(ListC)
           new == ChainOf(m_first', m_next', ListC)
       IN  IF call'.op = "add" /\ call'.ret THEN new = Append(old, call'.obj)
           ELSE IF call'.op = "insert" /\ call'.ret THEN new = <<call'.obj>> \o old
           ELSE IF call'.op = "remove" /\ call'.ret
                THEN call'.obj \in Range(old) /\ new = Without(old, call'.obj)
           ELSE new = old]_vars
C7_Witness ==
    /\ call.op = "insert" /\ call.ret
    /\ Len(Chain(ListC)) = 3 /\ Chain(ListC)[1] = call.obj

\* C8: one update() (draw()) of a collection calls update() (draw()) once on
\* each member, in chain order, and on nothing else, and leaves the chain and
\* the rest of the heap as they were.
C8_TraversalVisitsMembersInOrder ==
    [][call'.op \in {"update", "draw"} =>
        /\ Len(call'.log) = Len(Chain(call'.self))
        /\ \A i \in 1..Len(call'.log) : /\ call'.log[i].ev = call'.op
                                        /\ call'.log[i].obj = Chain(call'.self)[i]
        /\ HeapUnchanged]_vars
C8_Witness ==
    /\ call.op = "draw" /\ Len(call.log) = 3

\* C9: right after add(e) or insert(e) on an entity e returns, true or false,
\* has(e) is true; and has(e) is true exactly for the entities reachable from
\* head.
C9_HasAfterAdd ==
    /\ (call.op \in {"add", "insert"} /\ call.obj # NULL) =>
           has(Heap, call.self, call.obj)
    /\ \A e \in Obj : has(Heap, ListC, e) <=> e \in Members(ListC)
C9_Witness ==
    /\ call.op = "add" /\ ~call.ret /\ call.obj # NULL
    /\ has(Heap, ListC, call.obj) /\ Chain(ListC)[Len(Chain(ListC))] = call.obj

\* C10: right after remove(e) returns, true or false, has(e) is false.
C10_NotHasAfterRemove ==
    call.op = "remove" => ~has(Heap, call.self, call.obj)
C10_Witness ==
    /\ call.op = "remove" /\ call.ret /\ Len(Chain(ListC)) = 2
    /\ ~has(Heap, ListC, call.obj)

\* C11: moveBy(d) followed by moveBy(-d) on the same object leaves both
\* corners of the footprint as they were before the first call, for footprints
\* and offsets up to the ends of the coordinate range; and moveBy(d) gives the
\* footprint that moveTo(position + d) gives.
C11_MoveByRoundTrip ==
    [][/\ (/\ call.op = "moveBy" /\ call'.op = "moveBy"
            /\ call'.self = call.self /\ call'.pt = PtNeg(call.pt)) =>
               m_rect'[call'.self] = call.from[call'.self]
       /\ call'.op = "moveBy" =>
               m_rect'[call'.self] =
                   moveTo(Heap, call'.self, PtAdd(m_rect[call'.self].p1, call'.pt))
                       .rect[call'.self]]_vars
\* The way back of a round trip over the end of the range: (MinInt, 0) is
\* reached by moveBy((1, -1)) from (MaxInt, 1) only.
C11_Witness ==
    /\ call.op = "moveBy" /\ call.pt = Pt(-1, 1)
    /\ call.from[call.self].p1 = Pt(MinInt, 0)
    /\ m_rect[call.self].p1 = Pt(MaxInt, 1)
    /\ width(m_rect[call.self]) = 2

\* C12: setPos and setSize make no refreshWorld call, attached or not, and
\* change nothing but the footprint of their object: setPos puts the top-left
\* corner at its argument and keeps width and height, setSize keeps the
\* top-left corner.  So setSize(original size) right after resize(s) restores
\* width and height, and the only refreshWorld calls of the two are the two
\* that resize makes on an attached object.
OthersKeepRect(o) == \A x \in Obj \ {o} : m_rect'[x] = m_rect[x]
C12_SetPosSetSizeSilent ==
    [][/\ call'.op = "setPos" =>
            /\ call'.log = <<>>
            /\ UNCHANGED <<m_first, m_next, m_tiler>>
            /\ OthersKeepRect(call'.self)
            /\ m_rect'[call'.self].p1 = call'.pt
            /\ width(m_rect'[call'.self]) = width(m_rect[call'.self])
            /\ height(m_rect'[call'.self]) = height(m_rect[call'.self])
       /\ call'.op = "setSize" =>
            /\ call'.log = <<>>
            /\ UNCHANGED <<m_first, m_next, m_tiler>>
            /\ OthersKeepRect(call'.self)
            /\ m_rect'[call'.self].p1 = m_rect[call'.self].p1
       /\ (/\ call.op = "resize" /\ call'.op = "setSize" /\ call'.self = call.self
           /\ call'.pt = Pt(width(call.from[call.self]), height(call.from[call.self]))) =>
            /\ width(m_rect'[call'.self]) = width(call.from[call.self])
            /\ height(m_rect'[call'.self]) = height(call.from[call.self])
            /\ call'.log = <<>>
            /\ Len(call.log) = IF m_tiler[call.self] # NULL THEN 2 ELSE 0]_vars
\* setSize((1, 1)) on an attached object that is 2 x 3 after a resize.
C12_Witness ==
    /\ call.op = "setSize" /\ m_tiler[call.self] # NULL /\ call.pt = Pt(1, 1)
    /\ width(call.from[call.self]) = 2 /\ height(call.from[call.self]) = 3
    /\ width(m_rect[call.self]) = 1 /\ height(m_rect[call.self]) = 1
    /\ call.log = <<>>

\* C13: getPrev(nullptr) returns the last member, or null on an empty
\* collection; getPrev(c) returns the member linked to c, or null when c is the
\* head or no member; getPrev changes nothing.
C13_GetPrev ==
    [][call'.op = "getPrev" =>
        LET c == Chain(call'.self)
        IN  /\ HeapUnchanged
            /\ call'.log = <<>>
            /\ call'.obj = NULL =>
                   call'.retp = IF c = <<>> THEN NULL ELSE c[Len(c)]
            /\ call'.obj # NULL =>
                   \/ \E i \in 2..Len(c) : c[i] = call'.obj /\ call'.retp = c[i - 1]
                   \/ /\ \A i \in 2..Len(c) : c[i] # call'.obj
                      /\ call'.retp = NULL]_vars
C13_Witness ==
    /\ call.op = "getPrev" /\ call.obj = NULL
    /\ Len(Chain(ListC)) = 3 /\ call.retp = Chain(ListC)[3]

\* C14: every member of every collection has the collection's own target,
\* in every state that add, insert, remove and refresh calls on collections
\* holding plain objects and collections have returned to.
C14_MembersShareTarget ==
    ~call.hang =>
        \A l \in Lists : \A m \in Members(l) : m_tiler[m] = m_tiler[l]

\* C15: no object is reachable from the heads of two collections, whatever
\* add, insert and remove calls are made on collections sharing a pool of
\* objects, and add/insert on one collection leaves the members of the others
\* as they are.
Disjoint(first, next) ==
    \A l1, l2 \in Lists :
        l1 # l2 => Range(ChainOf(first, next, l1)) \cap Range(ChainOf(first, next, l2)) = {}
OthersKeepMembers(l) ==
    \A x \in Lists \ {l} : Range(ChainOf(m_first', m_next', x)) = Members(x)
C15_AtMostOneCollection ==
    [][/\ Disjoint(m_first', m_next')
       /\ call'.op \in {"add", "insert"} => OthersKeepMembers(call'.self)]_vars
\* C15, amended: a call that is handed an object that is in no collection
\* keeps disjoint collections disjoint and, when it is add or insert, leaves
\* the members of the other collections as they are; so does every remove.
C15_DisjointKeptByRuleKeepingCalls ==
    [][(/\ Disjoint(m_first, m_next)
        /\ call'.op \in {"add", "insert"} => InNoCollection(call'.obj)) =>
        /\ Disjoint(m_first', m_next')
        /\ call'.op \in {"add", "insert"} => OthersKeepMembers(call'.self)]_vars
C15_Witness ==
    /\ call.op = "insert" /\ call.ret /\ Disjoint(m_first, m_next)
    /\ \A l \in Lists : Chain(l) # <<>>
    /\ Len(Chain(call.self)) = 2

\* C16: p1 <= p2 componentwise holds after construction and after every
\* moveTo, moveBy, setPos, resize and setSize with sizes of at least 1 x 1, at
\* every position and offset of the coordinate type.
Valid(r) == r.p1.x <= r.p2.x /\ r.p1.y <= r.p2.y
Fits(v) == MinInt <= v /\ v <= MaxInt
FitsPt(x, y) == Fits(x) /\ Fits(y)
CornerFits(op, r, a) ==
    IF op \in {"moveTo", "setPos"}
    THEN FitsPt(a.x + r.p2.x - r.p1.x, a.y + r.p2.y - r.p1.y)
    ELSE IF op = "moveBy"
    THEN FitsPt(r.p1.x + a.x, r.p1.y + a.y) /\ FitsPt(r.p2.x + a.x, r.p2.y + a.y)
    ELSE FitsPt(r.p1.x + a.x - 1, r.p1.y + a.y - 1)
RECURSIVE Below(_, _, _, _)
Below(h, p, d, n) ==
    IF p = NULL \/ n = 0 THEN {}
    ELSE {p} \cup (IF p \in Lists /\ d > 0
                   THEN Below(h, h.first[p], d - 1, MaxWalk) ELSE {})
             \cup Below(h, h.next[p], d, n - 1)
RECURSIVE PlainBelow(_, _, _, _)
PlainBelow(h, p, d, n) ==
    IF p = NULL \/ n = 0 THEN <<>>
    ELSE (IF p \notin Lists THEN <<p>>
          ELSE IF d > 0 THEN PlainBelow(h, h.first[p], d - 1, MaxWalk) ELSE <<>>)
         \o PlainBelow(h, h.next[p], d, n - 1)
Descendants(o) == IF o \in Lists THEN Below(Heap, m_first[o], MaxDepth, MaxWalk) ELSE {}
PlainDescendants(o) ==
    IF o \in Lists THEN PlainBelow(Heap, m_first[o], MaxDepth, MaxWalk) ELSE <<o>>
\* The log is one refreshWorld per object of seq, in order, on target t with
\* the object's footprint, issued when the object already had target t.
RefreshedOnce(log, seq, t) ==
    /\ Len(log) = Len(seq)
    /\ \A i \in 1..Len(seq) :
          /\ log[i].ev = "refreshWorld" /\ log[i].on = t
          /\ log[i].rect = m_rect[seq[i]]
          /\ log[i].at.tiler[seq[i]] = t
\* C17: refresh() of a collection S visits the members head to tail, sets
\* each member's target to S's and then refreshes the member; so after S is
\* refreshed, or added or inserted into a collection with target T2, every
\* descendant of S has the target, every plain descendant got exactly one
\* refreshWorld on it with its own footprint, and no other target was called.
C17_RefreshRetargets ==
    [][~call'.hang =>
        /\ call'.op = "refresh" /\ call'.self \in Lists =>
              /\ \A x \in Descendants(call'.self) :
                    m_tiler'[x] = m_tiler[call'.self]
              /\ IF m_tiler[call'.self] = NULL THEN call'.log = <<>>
                 ELSE RefreshedOnce(call'.log, PlainDescendants(call'.self),
                                    m_tiler[call'.self])
        /\ call'.op \in {"add", "insert"} /\ call'.ret =>
              /\ \A x \in {call'.obj} \cup Descendants(call'.obj) :
                    m_tiler'[x] = m_tiler[call'.self]
              /\ IF m_tiler[call'.self] = NULL THEN call'.log = <<>>
                 ELSE RefreshedOnce(call'.log, PlainDescendants(call'.obj),
                                    m_tiler[call'.self])]_vars
\* A sub-collection of two members is added to a collection with another
\* target: when the first member is refreshed the second still has the old one.
C17_Witness ==
    /\ call.op = "add" /\ call.ret /\ call.obj \in Lists
    /\ m_tiler[call.self] # NULL
    /\ Len(call.log) = 2
    /\ \E x \in Plain :
          /\ call.log[1].at.tiler[x] \notin {NULL, m_tiler[call.self]}
          /\ m_tiler[x] = m_tiler[call.self]

\* The heap a geometry call op(a) on object o leaves, started from heap h.
GeomCall(op, h, o, a) ==
    CASE op = "moveTo" -> moveTo(h, o, a)
      [] op = "moveBy" -> moveBy(h, o, a)
      [] op = "resize" -> resize(h, o, a)
      [] OTHER -> refresh(h, o, MaxDepth)
\* C18: an entity with no target (never added, removed, or member of a
\* collection without target) does moveTo, moveBy, resize and refresh with
\* no refreshWorld call, and its footprint is updated exactly as if it were
\* attached; add/insert into a collection without target succeeds, leaves
\* the entity's target null and emits no call.
C18_UnattachedIsSilent ==
    [][/\ (/\ call'.op \in {"moveTo", "moveBy", "resize", "refresh"}
            /\ call'.self \in Plain
            /\ m_tiler[call'.self] = NULL) =>
              /\ call'.log = <<>>
              /\ m_tiler' = m_tiler /\ m_first' = m_first /\ m_next' = m_next
              /\ \A t \in Tilers :
                    m_rect' = GeomCall(call'.op, setTiler(Heap, call'.self, t),
                                       call'.self, call'.pt).rect
       /\ (/\ call'.op \in {"add", "insert"}
            /\ call'.obj \in Plain
            /\ m_tiler[call'.self] = NULL
            /\ call'.obj \notin Members(call'.self)) =>
              /\ call'.ret
              /\ call'.obj \in Range(ChainOf(m_first', m_next', call'.self))
              /\ m_tiler'[call'.obj] = NULL
              /\ call'.log = <<>>]_vars
\* A member of a collection without target has been moved.
C18_Witness ==
    /\ call.op = "moveBy" /\ call.pt = Pt(1, -1)
    /\ m_first[ListC] = call.self /\ m_tiler[ListC] = NULL
    /\ m_tiler[call.self] = NULL
    /\ call.log = <<>>
    /\ m_rect[call.self].p1 = PtAdd(call.from[call.self].p1, Pt(1, -1))

\* C19: provided callers only pass to add/insert entities that are in no
\* collection, every plain entity that is a member of no collection has a null
\* next link and a null target, so that no geometry call on it emits a
\* refreshWorld call.
C19_NonMemberDetached ==
    ~call.hang =>
        \A o \in Plain :
            InNoCollection(o) =>
                /\ m_next[o] = NULL
                /\ m_tiler[o] = NULL
                /\ \A op \in {"moveTo", "moveBy", "resize", "refresh"} :
                      \A a \in SizeInputs : GeomCall(op, Heap, o, a).log = <<>>
\* A plain member with a target has been removed from the head of a
\* collection that holds other members.
C19_Witness ==
    /\ call.op = "remove" /\ call.ret /\ call.obj \in Plain
    /\ Len(call.log) = 1
    /\ call.log[1].at.first[call.self] = call.obj
    /\ call.log[1].at.next[call.obj] # NULL
    /\ InNoCollection(call.obj)
    /\ m_tiler[call.obj] = NULL /\ m_next[call.obj] = NULL

\* C20: in every state reachable by add, insert and remove over plain entities
\* and collections that may be members of collections, every update(),
\* refresh() and draw() call on a collection terminates, the refresh() that
\* add, insert and remove make on their argument included.
C20_TraversalsTerminate ==
    /\ ~call.hang
    /\ \A l \in Lists :
          /\ ~update(Heap, l, MaxDepth).hang
          /\ ~refresh(Heap, l, MaxDepth).hang
          /\ ~draw(Heap, l, MaxDepth).hang

====
